---- MODULE Spec2Model ----
(***************************************************************************)
(* Authenticated-session establishment of the todo-app Playwright suite:   *)
(* the two signIn routines of the repository (the one racing two waitFor   *)
(* calls, and the one built on the LoginPage / TodoPage page objects),     *)
(* their callers (the authenticatedPage fixture and the beforeEach hook of *)
(* the critical tests), the browser page they drive and the application    *)
(* behind it; then, each a specification of its own, the after-file-edit   *)
(* hook (HookSpec), loadEnv at start-up (EnvSpec), and the test bodies of  *)
(* the critical flows on the TodoPage page object (TodoSpec).              *)
(*                                                                         *)
(* Time is counted in seconds: the source's `timeout: 15000` (ms) is 15.   *)
(* Every `await` of the source is one step of the model; what the source   *)
(* runs synchronously between two awaits is one action.                    *)
(***************************************************************************)
EXTENDS Integers, Sequences, FiniteSets, TLC

\* timeout of each of the two waitFor calls, in seconds (timeout: 15000)
WaitTimeout == 15

\* default timeout of BasePage.waitForElementVisible, in seconds (timeout = 5000)
ExpectTimeout == 5

\* horizon of the clock: how far past the deadline the model lets time run
MaxTime == 17

\* process.env value of a variable that is not set
Undefined == "<undefined>"

\* values the environment may give TEST_USER_EMAIL / TEST_USER_PASSWORD
EmailValues == {Undefined, "", "user@example.com"}
PasswordValues == {Undefined, "", "password123"}

\* JavaScript's !v for a string-or-undefined value
Falsy(v) == v = Undefined \/ v = ""

VARIABLES
  env,                 \* process.env: [TEST_USER_EMAIL, TEST_USER_PASSWORD]
  TEST_USER_EMAIL,     \* module constant of the fixture file, read at load
  TEST_USER_PASSWORD,  \* module constant of the fixture file, read at load
  entry,               \* the caller of this test: "fixture" | "hook"
  impl,                \* the signIn in use: "race" | "pom" (page objects)
  pc,                  \* position of the test's setup code
  step,                \* page-object signIn: index of the operation in progress
  testStatus,          \* "setup" | "skipped" | "failed" | "body"
  signInStatus,        \* "notCalled" | "running" | "returned" | "thrown"
  active,              \* how many signIn calls are in progress on the page
  result,              \* signIn's local `result`: "none" | "ok" | "invalid" | "timeout"
  error,               \* the message of the raised Error, or NoError
  calls,               \* the page operations issued so far, in order
  form,                \* what was typed into the login form
  loaded,              \* the page was navigated to '/'
  submitted,           \* the sign-in button was clicked (application side)
  visible,             \* which elements the page shows (each through its locator)
  placeholder,         \* the placeholder of the input the todo view rendered
  waits,               \* [todo, invalid]: state of each waitFor promise
  race,                \* the Promise.race promise
  jobs,                \* promise reaction jobs queued for the race
  elapsed,             \* seconds since the wait(s) in progress were issued
  sinceSubmit,         \* seconds since the sign-in button was clicked
  shownAt,             \* history: sinceSubmit when each marker became visible
  settleLog,           \* history: the waits and expects in the order they settled
  endedAt,             \* history: elapsed when signIn returned or raised
  hook,                \* the after-file-edit hook process:
                       \*   [pc, stdin, spawned, closes, exitCode]
  app,                 \* the todo application: its list, its view and what it rendered
  run,                 \* the test body in progress: [test, at, sub, log, clicks, status]
  loader               \* loadEnv at start-up: its inputs, what it loaded and printed

vars == <<env, TEST_USER_EMAIL, TEST_USER_PASSWORD, entry, impl, pc, step,
          testStatus, signInStatus, result, error, calls, form, loaded,
          submitted, visible, placeholder, waits, race, jobs, elapsed,
          sinceSubmit, shownAt, settleLog, endedAt, hook, active, app, run,
          loader>>

envVars == <<env, TEST_USER_EMAIL, TEST_USER_PASSWORD, entry, impl>>
appVars == <<loaded, submitted, visible, placeholder, shownAt>>
raceVars == <<waits, race, jobs>>
todoVars == <<app, run>>

NoError == <<>>

\* "not yet" in the history variables that hold a time
Never == 0 - 1

\* the two markers of the login outcome: the todo input, the rejection text
Markers == {"todo", "invalid"}

\* what LoginPage.verifyPageLoaded looks for
LoginElements == {"loginForm", "emailInput", "passwordInput", "signInButton"}

\* what TodoPage.verifyTodoListLoaded looks for
TodoElements == {"todoList", "todo", "todoSubmit"}

Elements == LoginElements \cup TodoElements \cup Markers

\* the elements whose visibility the signIn in use can depend on, and the
\* rejection text
Tracked(i) == IF i = "race" THEN Markers ELSE Elements

----------------------------------------------------------------------------
(* Error messages, word by word.                                           *)

LOGIN_CREDENTIALS_ERROR ==
  <<"Login", "failed:", "app", "showed", "\"Invalid", "credentials\".",
    "Check", "TEST_USER_EMAIL", "and", "TEST_USER_PASSWORD", "in",
    "config/.env.dev", "and", "that", "the", "user", "exists", "at", "the",
    "app.">>

LOGIN_TIMEOUT_ERROR ==
  <<"Login", "failed:", "todo", "app", "UI", "did", "not", "appear",
    "within", "15s.", "Check", "credentials", "and", "app", "availability.">>

MISSING_CREDENTIALS_ERROR ==
  <<"Set", "TEST_USER_EMAIL", "and", "TEST_USER_PASSWORD", "in",
    "config/.env.dev", "(see", "config/.env.example)">>

\* what a Playwright action (goto, fill, click) raises when it cannot complete
ACTION_ERROR == <<"TimeoutError">>

\* what expect(locator).toBeVisible({ timeout }) raises when the timeout elapses
EXPECT_ERROR == <<"expect(locator).toBeVisible()", "failed">>

----------------------------------------------------------------------------
(* Placeholders and the success locator: strings are sequences of          *)
(* characters, a regular expression of alternatives is the set of its      *)
(* alternatives.                                                           *)

UpperCase == <<"A", "B", "C", "D", "E", "F", "G", "H", "I", "J", "K", "L", "M",
               "N", "O", "P", "Q", "R", "S", "T", "U", "V", "W", "X", "Y", "Z">>
LowerCase == <<"a", "b", "c", "d", "e", "f", "g", "h", "i", "j", "k", "l", "m",
               "n", "o", "p", "q", "r", "s", "t", "u", "v", "w", "x", "y", "z">>

\* the character, lower-cased (the i flag of the pattern)
Lower(c) ==
  IF \E i \in 1..Len(UpperCase) : UpperCase[i] = c
    THEN LowerCase[CHOOSE i \in 1..Len(UpperCase) : UpperCase[i] = c]
    ELSE c

\* the word occurs somewhere in the string, whatever the case of the string
Contains(str, word) ==
  \E i \in 1..(Len(str) - Len(word) + 1) :
    \A j \in 1..Len(word) : Lower(str[i + j - 1]) = word[j]

\* RegExp test of an unanchored /a|b|.../i pattern
Test(pattern, str) == \E word \in pattern : Contains(str, word)

\* /what|todo|add|new|type|enter/i
TODO_INPUT_PLACEHOLDER ==
  { <<"w", "h", "a", "t">>, <<"t", "o", "d", "o">>, <<"a", "d", "d">>, <<"n", "e", "w">>,
    <<"t", "y", "p", "e">>, <<"e", "n", "t", "e", "r">> }

\* no input rendered yet
NoPlaceholder == <<>>

\* placeholders the todo view's input may carry
Placeholders ==
  { <<"W", "h", "a", "t", " ", "n", "e", "e", "d", "s", " ", "t", "o", " ",
      "b", "e", " ", "d", "o", "n", "e", "?">>,
    <<"N", "E", "W", " ", "T", "A", "S", "K">>,
    <<"T", "y", "p", "e", " ", "h", "e", "r", "e">>,
    <<"E", "n", "t", "e", "r", " ", "a", " ", "t", "a", "s", "k">>,
    <<"S", "e", "a", "r", "c", "h">> }

----------------------------------------------------------------------------
(* Promises.                                                               *)

Pending == [state |-> "pending", value |-> "none"]

\* the value the .then() callback chained on each waitFor produces
ThenValue(m) == IF m = "todo" THEN "ok" ELSE "invalid"

\* the settlement of waitFor(...).then(() => value): the callback runs only
\* on fulfilment, a rejection passes through
Chained(m, how) ==
  IF how = "fulfilled"
    THEN [state |-> "fulfilled", value |-> ThenValue(m)]
    ELSE [state |-> "rejected", value |-> "TimeoutError"]

\* Promise.race with the last settlement winning
RaceSettle_LastWins(r, s) == s

\* Promise.race taken for Promise.any: a rejection does not settle it
RaceSettle_IgnoresRejection(r, s) ==
  IF r.state = "pending" /\ s.state = "fulfilled" THEN s ELSE r

\* Promise.race letting a later rejection replace the settlement it holds
RaceSettle_RejectionOverrides(r, s) ==
  IF r.state = "pending" \/ s.state = "rejected" THEN s ELSE r

\* Promise.race: the first input to settle settles the race, later ones are ignored
RaceSettle(r, s) == IF r.state = "pending" THEN s ELSE r

\* the catch handler yielding a value no branch of signIn tests for
CatchResult_Misspelt(r) == IF r.state = "rejected" THEN "timedout" ELSE r.value

\* .catch(() => 'timeout'): a rejection becomes the value 'timeout'
CatchResult(r) == IF r.state = "rejected" THEN "timeout" ELSE r.value

\* Classify raising the timeout error for a rejection as well
Classify_InvalidAsTimeout(res) ==
  IF res = "invalid" \/ res = "timeout" THEN LOGIN_TIMEOUT_ERROR ELSE NoError

\* Classify with the first throw lost: a rejection falls through to the return
Classify_InvalidReturns(res) ==
  IF res = "timeout" THEN LOGIN_TIMEOUT_ERROR ELSE NoError

\* Classify with the second throw lost: a timeout falls through to the return
Classify_TimeoutReturns(res) ==
  IF res = "invalid" THEN LOGIN_CREDENTIALS_ERROR ELSE NoError

\* the tail of signIn: which error it raises for `result`, NoError to return
Classify(res) ==
  IF res = "invalid" THEN LOGIN_CREDENTIALS_ERROR
  ELSE IF res = "timeout" THEN LOGIN_TIMEOUT_ERROR
  ELSE NoError

----------------------------------------------------------------------------
\* the exit code of a process that has not exited, or that reports none
NoCode == 0 - 1

\* a path: whether it is absolute, and its segments; a segment is the
\* sequence of its dot-separated parts ("login.test.ts" is login, test, ts)
RootPath == [abs |-> TRUE, segs |-> <<>>]

\* the hook is not running
HookOff ==
  [pc |-> "off",
   stdin |-> [kind |-> "blank", file_path |-> RootPath, workspace_roots |-> <<>>],
   spawned |-> <<>>,
   closes |-> <<>>,
   exitCode |-> NoCode]

\* no test has begun: nothing was called, the page is blank
SuiteIdle ==
  /\ pc = "begin"
  /\ step = 0
  /\ testStatus = "setup"
  /\ signInStatus = "notCalled"
  /\ active = 0
  /\ result = "none"
  /\ error = NoError
  /\ calls = <<>>
  /\ form = [email |-> Undefined, password |-> Undefined]
  /\ loaded = FALSE
  /\ submitted = FALSE
  /\ visible = [e \in Elements |-> FALSE]
  /\ placeholder = NoPlaceholder
  /\ waits = [m \in Markers |-> "none"]
  /\ race = Pending
  /\ jobs = <<>>
  /\ elapsed = 0
  /\ sinceSubmit = 0
  /\ shownAt = [m \in Markers |-> Never]
  /\ settleLog = <<>>
  /\ endedAt = Never

\* a test of the suite is about to run its setup
TestInit ==
  /\ env \in [TEST_USER_EMAIL : EmailValues, TEST_USER_PASSWORD : PasswordValues]
  /\ TEST_USER_EMAIL = env.TEST_USER_EMAIL
  /\ TEST_USER_PASSWORD = env.TEST_USER_PASSWORD
  /\ entry \in {"fixture", "hook"}
  /\ impl \in {"race", "pom"}
  /\ SuiteIdle

\* the files config/.env.<name> that may be there, and what may be at such a
\* path: nothing, a file, or something that cannot be read as one
EnvNames == {"dev", "test"}
PathKinds == {"absent", "file", "directory"}

\* loadEnv is not running
LoaderOff ==
  [pc |-> "off", APP_ENV |-> Undefined, CI |-> Undefined,
   files |-> [n \in EnvNames |-> "absent"],
   content |-> [TEST_USER_EMAIL |-> Undefined, TEST_USER_PASSWORD |-> Undefined],
   configured |-> <<>>, warnings |-> <<>>, raised |-> FALSE]

\* no todo test is running: the application's list is out of sight
AppOff ==
  [todos |-> {}, completed |-> {}, filter |-> "all", input |-> <<>>,
   dom |-> [shown |-> {}, checked |-> {}, todoCount |-> 0, todoCompleted |-> 0]]

RunOff ==
  [test |-> "none", at |-> 0, sub |-> 0, log |-> <<>>, clicks |-> <<>>,
   status |-> "off"]

Init ==
  /\ TestInit
  /\ hook = HookOff
  /\ app = AppOff
  /\ run = RunOff
  /\ loader = LoaderOff

----------------------------------------------------------------------------
(* The callers.                                                            *)

\* the hook's guard looking at the identifier alone
skipWithoutCredentials_EmailOnly == Falsy(env.TEST_USER_EMAIL)

\* the hook's guard with && for ||: skips only when both are missing
skipWithoutCredentials_Both ==
  Falsy(env.TEST_USER_EMAIL) /\ Falsy(env.TEST_USER_PASSWORD)

\* skipWithoutCredentials(): reads process.env when the hook runs
skipWithoutCredentials == Falsy(env.TEST_USER_EMAIL) \/ Falsy(env.TEST_USER_PASSWORD)

\* the fixture's guard testing the identifier alone
MissingCredentials_EmailOnly == Falsy(TEST_USER_EMAIL)

\* the guard of the authenticatedPage fixture: reads the module constants
MissingCredentials == Falsy(TEST_USER_EMAIL) \/ Falsy(TEST_USER_PASSWORD)

\* where the signIn in use begins
FirstStep == IF impl = "race" THEN "goto" ELSE "pom"

\* authenticatedPage: raise when a credential is missing, else call signIn
AuthenticatedPage ==
  /\ pc = "begin"
  /\ entry = "fixture"
  /\ IF MissingCredentials
       THEN /\ error' = MISSING_CREDENTIALS_ERROR
            /\ testStatus' = "failed"
            /\ pc' = "done"
            /\ UNCHANGED <<signInStatus, active>>
       ELSE /\ signInStatus' = "running"
            /\ active' = active + 1
            /\ pc' = FirstStep
            /\ UNCHANGED <<error, testStatus>>
  /\ UNCHANGED <<envVars, loader, todoVars, hook, sinceSubmit, appVars,
                 raceVars, step, settleLog, result, calls, form, elapsed,
                 endedAt>>

\* the hook starting a signIn it does not await before the one it awaits
BeforeEach_SecondCallNotAwaited ==
  /\ pc = "begin"
  /\ entry = "hook"
  /\ IF skipWithoutCredentials
       THEN /\ testStatus' = "skipped"
            /\ pc' = "done"
            /\ UNCHANGED <<signInStatus, active>>
       ELSE /\ signInStatus' = "running"
            /\ active' = active + 2
            /\ pc' = FirstStep
            /\ UNCHANGED testStatus
  /\ UNCHANGED <<envVars, loader, todoVars, hook, sinceSubmit, appVars,
                 raceVars, step, settleLog, result, error, calls, form,
                 elapsed, endedAt>>

\* beforeEach: skip the test when a credential is missing, else call signIn
BeforeEach ==
  /\ pc = "begin"
  /\ entry = "hook"
  /\ IF skipWithoutCredentials
       THEN /\ testStatus' = "skipped"
            /\ pc' = "done"
            /\ UNCHANGED <<signInStatus, active>>
       ELSE /\ signInStatus' = "running"
            /\ active' = active + 1
            /\ pc' = FirstStep
            /\ UNCHANGED testStatus
  /\ UNCHANGED <<envVars, loader, todoVars, hook, sinceSubmit, appVars,
                 raceVars, step, settleLog, result, error, calls, form,
                 elapsed, endedAt>>

\* the fixture swallowing signIn's error: use(page) runs whatever signIn did
UsePage_EvenAfterThrow ==
  /\ pc \in {"returned", "thrown"}
  /\ entry = "fixture"
  /\ testStatus' = "body"
  /\ pc' = "done"
  /\ UNCHANGED <<envVars, loader, todoVars, hook, active, sinceSubmit,
                 appVars, raceVars, step, settleLog, signInStatus, result,
                 error, calls, form, elapsed, endedAt>>

\* await use(page): the fixture hands the page to the test body
UsePage ==
  /\ pc = "returned"
  /\ entry = "fixture"
  /\ testStatus' = "body"
  /\ pc' = "done"
  /\ UNCHANGED <<envVars, loader, todoVars, hook, active, sinceSubmit,
                 appVars, raceVars, step, settleLog, signInStatus, result,
                 error, calls, form, elapsed, endedAt>>

\* the hook is over: the test body runs
RunTestBody ==
  /\ pc = "returned"
  /\ entry = "hook"
  /\ testStatus' = "body"
  /\ pc' = "done"
  /\ UNCHANGED <<envVars, loader, todoVars, hook, active, sinceSubmit,
                 appVars, raceVars, step, settleLog, signInStatus, result,
                 error, calls, form, elapsed, endedAt>>

\* an error raised by signIn leaves the fixture or the hook: the test fails
SetupFails ==
  /\ pc = "thrown"
  /\ testStatus' = "failed"
  /\ pc' = "done"
  /\ UNCHANGED <<envVars, loader, todoVars, hook, active, sinceSubmit,
                 appVars, raceVars, step, settleLog, signInStatus, result,
                 error, calls, form, elapsed, endedAt>>

----------------------------------------------------------------------------
(* signIn racing two waits: up to the race.                                *)

\* signIn retrying on failure: the error is noted and the login starts over
Raise_Retries(err) ==
  /\ error' = err
  /\ signInStatus' = "running"
  /\ pc' = FirstStep
  /\ endedAt' = endedAt
  /\ active' = active

\* signIn ends by raising err
Raise(err) ==
  /\ error' = err
  /\ signInStatus' = "thrown"
  /\ pc' = "thrown"
  /\ endedAt' = elapsed
  /\ active' = active - 1

\* signIn ends by returning
Return ==
  /\ signInStatus' = "returned"
  /\ pc' = "returned"
  /\ endedAt' = elapsed
  /\ active' = active - 1
  /\ UNCHANGED error

\* one awaited page operation: it completes and signIn goes on, or it raises
PageStep(at, op, next) ==
  /\ pc = at
  /\ calls' = Append(calls, op)
  /\ \E ok \in BOOLEAN :
       IF ok THEN /\ pc' = next
                  /\ UNCHANGED <<error, signInStatus, endedAt, active>>
             ELSE Raise(ACTION_ERROR)

\* await page.goto('/')
Goto ==
  /\ PageStep("goto", "goto", "fillEmail")
  /\ loaded' = (loaded \/ pc' = "fillEmail")
  /\ UNCHANGED <<envVars, loader, todoVars, hook, sinceSubmit, submitted,
                 visible, placeholder, shownAt, raceVars, step, settleLog,
                 testStatus, result, form, elapsed>>

\* await page.getByLabel(/email/i).fill(TEST_USER_EMAIL!)
FillEmail ==
  /\ PageStep("fillEmail", "fillEmail", "fillPassword")
  /\ form' = IF pc' = "fillPassword"
               THEN [form EXCEPT !.email = TEST_USER_EMAIL] ELSE form
  /\ UNCHANGED <<envVars, loader, todoVars, hook, sinceSubmit, appVars,
                 raceVars, step, settleLog, testStatus, result, elapsed>>

\* await page.getByRole('textbox', { name: /password/i }).fill(TEST_USER_PASSWORD!)
FillPassword ==
  /\ PageStep("fillPassword", "fillPassword", "click")
  /\ form' = IF pc' = "click"
               THEN [form EXCEPT !.password = TEST_USER_PASSWORD] ELSE form
  /\ UNCHANGED <<envVars, loader, todoVars, hook, sinceSubmit, appVars,
                 raceVars, step, settleLog, testStatus, result, elapsed>>

\* await page.getByRole('button', { name: /sign in/i }).click()
Click ==
  /\ PageStep("click", "click", "startRace")
  /\ submitted' = (submitted \/ pc' = "startRace")
  /\ UNCHANGED <<envVars, loader, todoVars, hook, sinceSubmit, loaded,
                 visible, placeholder, shownAt, raceVars, step, settleLog,
                 testStatus, result, form, elapsed>>

----------------------------------------------------------------------------
(* The race.                                                               *)

\* the two waitFor calls are issued and raced; signIn awaits the outcome
StartRace ==
  /\ pc = "startRace"
  /\ calls' = calls \o <<"waitTodo", "waitInvalid">>
  /\ waits' = [m \in Markers |-> "pending"]
  /\ elapsed' = 0
  /\ pc' = "awaitRace"
  /\ UNCHANGED <<envVars, loader, todoVars, hook, active, sinceSubmit,
                 appVars, race, jobs, step, settleLog, testStatus,
                 signInStatus, result, error, form, endedAt>>

\* the locator the signIn in use has for the todo input finds an input with
\* placeholder p: getByPlaceholder(TODO_INPUT_PLACEHOLDER).first() in the
\* race, the data-id selector of TodoPage in the page objects
Locates(p) == impl = "pom" \/ Test(TODO_INPUT_PLACEHOLDER, p)

\* the application renders an element: a login-page element once the page is
\* loaded, a todo-page element or the rejection text once the form is submitted
\* ("todo" is the input of the todo view, rendered with some placeholder and
\* visible to signIn if its locator finds it; locators.ts notes that the login
\* page's placeholders are different, so none is found before submit)
AppShows(e) ==
  /\ e \in Tracked(impl)
  /\ IF e \in LoginElements THEN loaded ELSE submitted
  /\ ~visible[e]
  /\ IF e = "todo"
       THEN /\ placeholder = NoPlaceholder
            /\ \E p \in Placeholders :
                 /\ placeholder' = p
                 /\ visible' = [visible EXCEPT ![e] = Locates(p)]
                 /\ shownAt' = IF Locates(p)
                                THEN [shownAt EXCEPT ![e] = sinceSubmit]
                                ELSE shownAt
       ELSE /\ visible' = [visible EXCEPT ![e] = TRUE]
            /\ shownAt' = IF e \in Markers
                            THEN [shownAt EXCEPT ![e] = sinceSubmit]
                            ELSE shownAt
            /\ UNCHANGED placeholder
  /\ UNCHANGED <<envVars, loader, todoVars, hook, active, sinceSubmit, loaded,
                 submitted, raceVars, pc, step, settleLog, testStatus,
                 signInStatus, result, error, calls, form, elapsed, endedAt>>

\* a wait settles: its chained promise's reaction is queued for the race
Settle(m, how) ==
  /\ waits' = [waits EXCEPT ![m] = how]
  /\ jobs' = Append(jobs, Chained(m, how))
  /\ settleLog' = Append(settleLog, <<m, how>>)
  /\ UNCHANGED <<envVars, loader, todoVars, hook, active, sinceSubmit,
                 appVars, race, pc, step, testStatus, signInStatus, result,
                 error, calls, form, elapsed, endedAt>>

\* waitFor({ state: 'visible' }) sees its element before its timeout
WaitObserves(m) ==
  /\ waits[m] = "pending"
  /\ visible[m]
  /\ elapsed < WaitTimeout
  /\ Settle(m, "fulfilled")

\* a wait given a shorter timeout than the deadline
WaitTimesOut_Shorter(m) ==
  /\ waits[m] = "pending"
  /\ elapsed >= WaitTimeout - 5
  /\ Settle(m, "rejected")

\* waitFor's timeout elapses first
WaitTimesOut(m) ==
  /\ waits[m] = "pending"
  /\ elapsed >= WaitTimeout
  /\ Settle(m, "rejected")

\* a queued reaction runs: Promise.race takes it if nothing settled it yet
RunJob ==
  /\ jobs # <<>>
  /\ race' = RaceSettle(race, Head(jobs))
  /\ jobs' = Tail(jobs)
  /\ UNCHANGED <<envVars, loader, todoVars, hook, active, sinceSubmit,
                 appVars, waits, settleLog, pc, step, testStatus,
                 signInStatus, result, error, calls, form, elapsed, endedAt>>

\* the await of the race resumes: result is classified, signIn returns or raises
ResumeSignIn ==
  /\ pc = "awaitRace"
  /\ race.state # "pending"
  /\ result' = CatchResult(race)
  /\ IF Classify(result') = NoError
       THEN Return
       ELSE Raise(Classify(result'))
  /\ UNCHANGED <<envVars, loader, todoVars, hook, sinceSubmit, appVars,
                 raceVars, step, settleLog, testStatus, calls, form, elapsed>>

----------------------------------------------------------------------------
(* signIn built on the page objects.                                       *)

Action(op) == [kind |-> "action", op |-> op, el |-> "none"]
Expect(op, el) == [kind |-> "expect", op |-> op, el |-> el]

\* login() clicking the button before it fills the fields
PomSteps_ClickFirst ==
  << [kind |-> "action", op |-> "goto", el |-> "none"],
     [kind |-> "action", op |-> "waitForLoadState", el |-> "none"],
     [kind |-> "expect", op |-> "expectLoginForm", el |-> "loginForm"],
     [kind |-> "expect", op |-> "expectEmailInput", el |-> "emailInput"],
     [kind |-> "expect", op |-> "expectPasswordInput", el |-> "passwordInput"],
     [kind |-> "expect", op |-> "expectSignInButton", el |-> "signInButton"],
     [kind |-> "action", op |-> "click", el |-> "none"],
     [kind |-> "action", op |-> "fillEmail", el |-> "none"],
     [kind |-> "action", op |-> "fillPassword", el |-> "none"],
     [kind |-> "expect", op |-> "expectTodoList", el |-> "todoList"],
     [kind |-> "expect", op |-> "expectTodoInput", el |-> "todo"],
     [kind |-> "expect", op |-> "expectTodoSubmit", el |-> "todoSubmit"] >>

\* login() called before verifyPageLoaded()
PomSteps_LoginFirst ==
  << Action("goto"),
     Action("waitForLoadState"),
     Action("fillEmail"),
     Action("fillPassword"),
     Action("click"),
     Expect("expectLoginForm", "loginForm"),
     Expect("expectEmailInput", "emailInput"),
     Expect("expectPasswordInput", "passwordInput"),
     Expect("expectSignInButton", "signInButton"),
     Expect("expectTodoList", "todoList"),
     Expect("expectTodoInput", "todo"),
     Expect("expectTodoSubmit", "todoSubmit") >>

\* the awaited operations of the page-object signIn, in program order:
\* navigateTo, verifyPageLoaded, login, verifyTodoListLoaded
PomSteps ==
  << Action("goto"),
     Action("waitForLoadState"),
     Expect("expectLoginForm", "loginForm"),
     Expect("expectEmailInput", "emailInput"),
     Expect("expectPasswordInput", "passwordInput"),
     Expect("expectSignInButton", "signInButton"),
     Action("fillEmail"),
     Action("fillPassword"),
     Action("click"),
     Expect("expectTodoList", "todoList"),
     Expect("expectTodoInput", "todo"),
     Expect("expectTodoSubmit", "todoSubmit") >>

\* an expect(...).toBeVisible() of the page-object signIn is in progress
Expecting == pc = "pom" /\ step > 0 /\ PomSteps[step].kind = "expect"

\* the operation in progress completed: the next one is issued (an expect is
\* logged when issued, its clock starts), or signIn returns after the last
Advance(log) ==
  /\ elapsed' = 0
  /\ IF step = Len(PomSteps)
       THEN /\ Return
            /\ calls' = log
            /\ UNCHANGED step
       ELSE /\ step' = step + 1
            /\ calls' = IF PomSteps[step + 1].kind = "expect"
                          THEN Append(log, PomSteps[step + 1].op) ELSE log
            /\ UNCHANGED <<pc, signInStatus, error, endedAt, active>>

\* signIn is entered: its first operation is next
PomEnter ==
  /\ pc = "pom"
  /\ step = 0
  /\ step' = 1
  /\ UNCHANGED <<envVars, loader, todoVars, hook, active, sinceSubmit,
                 appVars, raceVars, settleLog, pc, testStatus, signInStatus,
                 result, error, calls, form, elapsed, endedAt>>

\* an awaited page action (goto, waitForLoadState, fill, click): it completes
\* with its effect on the page, or it raises
PomAct ==
  /\ pc = "pom"
  /\ step > 0
  /\ PomSteps[step].kind = "action"
  /\ LET op == PomSteps[step].op IN
       \E ok \in BOOLEAN :
         IF ok
           THEN /\ Advance(Append(calls, op))
                /\ loaded' = (loaded \/ op = "goto")
                /\ submitted' = (submitted \/ op = "click")
                /\ form' = IF op = "fillEmail"
                             THEN [form EXCEPT !.email = TEST_USER_EMAIL]
                           ELSE IF op = "fillPassword"
                             THEN [form EXCEPT !.password = TEST_USER_PASSWORD]
                           ELSE form
           ELSE /\ Raise(ACTION_ERROR)
                /\ calls' = Append(calls, op)
                /\ UNCHANGED <<step, loaded, submitted, form, elapsed>>
  /\ UNCHANGED <<envVars, loader, todoVars, hook, sinceSubmit, visible,
                 placeholder, shownAt, raceVars, settleLog, testStatus,
                 result>>

\* expect(locator).toBeVisible({ timeout }) sees its element before the timeout
ExpectPasses ==
  /\ Expecting
  /\ visible[PomSteps[step].el]
  /\ elapsed < ExpectTimeout
  /\ settleLog' = Append(settleLog, <<PomSteps[step].el, "fulfilled">>)
  /\ Advance(calls)
  /\ UNCHANGED <<envVars, loader, todoVars, hook, sinceSubmit, appVars,
                 raceVars, testStatus, result, form>>

\* the expect's timeout elapses first: the assertion raises
ExpectTimesOut ==
  /\ Expecting
  /\ elapsed >= ExpectTimeout
  /\ settleLog' = Append(settleLog, <<PomSteps[step].el, "rejected">>)
  /\ Raise(EXPECT_ERROR)
  /\ UNCHANGED <<envVars, loader, todoVars, hook, sinceSubmit, appVars,
                 raceVars, step, testStatus, result, calls, form, elapsed>>

----------------------------------------------------------------------------
(* Time.                                                                   *)

\* something is due now: a wait or an expect can see its element, a timeout
\* has elapsed, a reaction is queued, or the awaited race has settled
Due ==
  \/ \E m \in Markers : waits[m] = "pending" /\ (visible[m] \/ elapsed >= WaitTimeout)
  \/ jobs # <<>>
  \/ pc = "awaitRace" /\ race.state # "pending"
  \/ Expecting /\ (visible[PomSteps[step].el] \/ elapsed >= ExpectTimeout)

\* a second passes, counted from the moment the wait(s) were issued
Tick ==
  /\ waits["todo"] # "none" \/ Expecting
  /\ ~Due
  /\ elapsed < MaxTime
  /\ elapsed' = elapsed + 1
  /\ sinceSubmit' = IF submitted THEN sinceSubmit + 1 ELSE sinceSubmit
  /\ UNCHANGED <<envVars, loader, todoVars, hook, active, appVars, raceVars,
                 pc, step, settleLog, testStatus, signInStatus, result, error,
                 calls, form, endedAt>>

Next ==
  \/ AuthenticatedPage
  \/ BeforeEach
  \/ UsePage
  \/ RunTestBody
  \/ SetupFails
  \/ Goto
  \/ FillEmail
  \/ FillPassword
  \/ Click
  \/ StartRace
  \/ \E e \in Elements : AppShows(e)
  \/ \E m \in Markers : WaitObserves(m)
  \/ \E m \in Markers : WaitTimesOut(m)
  \/ RunJob
  \/ ResumeSignIn
  \/ PomEnter
  \/ PomAct
  \/ ExpectPasses
  \/ ExpectTimesOut
  \/ Tick

Spec == Init /\ [][Next]_vars

\* the event loop keeps running and time keeps passing
FairSpec == Spec /\ WF_vars(Next)

----------------------------------------------------------------------------
(* The after-file-edit hook (after-file-edit.js): a process of its own,    *)
(* started with the payload on its standard input.                         *)

\* how many directories a file_path of the payload names at most
MaxDirs == 2

\* the segments "." and ".."
Dot == <<"", "">>
DotDot == <<"", "", "">>

\* segments left to right: "." is dropped, ".." takes back the segment before
\* it (at the root of an absolute path it is dropped, at the start of a
\* relative one it stays)
RECURSIVE NormalizeSegs(_, _, _)
NormalizeSegs(abs, done, rest) ==
  IF rest = <<>> THEN done
  ELSE IF Head(rest) = Dot THEN NormalizeSegs(abs, done, Tail(rest))
  ELSE IF Head(rest) = DotDot
    THEN IF done # <<>> /\ done[Len(done)] # DotDot
           THEN NormalizeSegs(abs, SubSeq(done, 1, Len(done) - 1), Tail(rest))
         ELSE IF abs THEN NormalizeSegs(abs, done, Tail(rest))
         ELSE NormalizeSegs(abs, Append(done, DotDot), Tail(rest))
  ELSE NormalizeSegs(abs, Append(done, Head(rest)), Tail(rest))

\* path.normalize
normalize(p) == [abs |-> p.abs, segs |-> NormalizeSegs(p.abs, <<>>, p.segs)]

\* p.endsWith('.' + suffix): the suffix lies within the last segment, after a dot
EndsWith(p, suffix) ==
  /\ p.segs # <<>>
  /\ LET f == p.segs[Len(p.segs)] IN
       /\ Len(f) > Len(suffix)
       /\ SubSeq(f, Len(f) - Len(suffix) + 1, Len(f)) = suffix

\* p.includes(path.sep + 'tests' + path.sep): a segment "tests" with a
\* separator before it and one after it
IncludesTestsDir(p) ==
  \E i \in 1..(Len(p.segs) - 1) : p.segs[i] = <<"tests">> /\ (i > 1 \/ p.abs)

\* TEST_PATTERNS.some((fn) => fn(p))
TEST_PATTERNS(p) ==
  \/ EndsWith(p, <<"test", "ts">>) \/ EndsWith(p, <<"test", "js">>)
  \/ EndsWith(p, <<"spec", "ts">>) \/ EndsWith(p, <<"spec", "js">>)
  \/ IncludesTestsDir(normalize(p))

isTestFile(filePath) == TEST_PATTERNS(normalize(filePath))

\* normalized.startsWith(root), for paths none of whose segments is a proper
\* prefix of another segment
StartsWith(p, root) ==
  /\ p.abs = root.abs
  /\ Len(root.segs) <= Len(p.segs)
  /\ SubSeq(p.segs, 1, Len(root.segs)) = root.segs

\* path.relative(root, p), for a p that starts with root
relative(root, p) ==
  [abs |-> FALSE, segs |-> SubSeq(p.segs, Len(root.segs) + 1, Len(p.segs))]

getRelativeTestPath(filePath, workspaceRoot) ==
  LET root == normalize(workspaceRoot)
      normalized == normalize(filePath)
  IN IF filePath.abs /\ StartsWith(normalized, root)
       THEN relative(root, normalized)
       ELSE normalized

\* process.cwd() of the hook, and the root the editor reports
Cwd == [abs |-> TRUE, segs |-> << <<"ws">> >>]

SeqsUpTo(S, n) == UNION {[1..k -> S] : k \in 0..n}

DirNames == {<<"tests">>, <<"src">>, Dot, DotDot}

FileNames ==
  { <<"login", "test", "ts">>, <<"login", "spec", "ts">>,
    <<"login", "test", "js">>, <<"login", "spec", "js">>,
    <<"helper", "ts">>, <<"test", "ts">>, <<"README", "md">> }

\* the file_path values of a payload: a file in up to MaxDirs directories,
\* relative to the workspace root or absolute below it
FilePaths ==
  { [abs |-> a, segs |-> (IF a THEN Cwd.segs ELSE <<>>) \o d \o <<f>>] :
      a \in BOOLEAN, d \in SeqsUpTo(DirNames, MaxDirs), f \in FileNames }

\* what the hook may find on its standard input: nothing but blanks, text
\* that is not JSON, the JSON text `null`, a payload without file_path, a
\* payload with one
Stdins ==
  { [kind |-> k, file_path |-> RootPath, workspace_roots |-> <<>>] :
      k \in {"blank", "garbage", "null", "noPath"} }
  \cup
  { [kind |-> "path", file_path |-> f, workspace_roots |-> r] :
      f \in FilePaths, r \in {<<>>, <<Cwd>>} }

HookInit ==
  /\ TestInit
  /\ env = [TEST_USER_EMAIL |-> Undefined, TEST_USER_PASSWORD |-> Undefined]
  /\ entry = "hook"
  /\ impl = "race"
  /\ hook \in { [HookOff EXCEPT !.pc = "start", !.stdin = in] : in \in Stdins }
  /\ app = AppOff
  /\ run = RunOff
  /\ loader = LoaderOff

\* payload.workspace_roots[0] || process.cwd()
WorkspaceRoot(in) ==
  IF in.workspace_roots # <<>> THEN in.workspace_roots[1] ELSE Cwd

HookExit(code) == hook' = [hook EXCEPT !.pc = "exited", !.exitCode = code]

\* main(): read the standard input, leave with 0 unless it names a test
\* file, else spawn the test run and wait for it to close
HookMain ==
  /\ hook.pc = "start"
  /\ LET in == hook.stdin
         workspaceRoot == WorkspaceRoot(in)
     IN IF in.kind = "blank" THEN HookExit(0)
        ELSE IF in.kind \in {"garbage", "null"} THEN HookExit(0)
        ELSE IF in.kind = "noPath" \/ ~isTestFile(in.file_path) THEN HookExit(0)
        ELSE hook' = [hook EXCEPT
               !.pc = "spawned",
               !.spawned = Append(@,
                 [command |-> "pnpm",
                  args |-> <<"exec", "playwright", "test">>,
                  file |-> getRelativeTestPath(in.file_path, workspaceRoot),
                  cwd |-> IF workspaceRoot.abs THEN workspaceRoot ELSE Cwd])]
  /\ UNCHANGED <<envVars, loader, todoVars, active, appVars, raceVars, pc,
                 step, testStatus, signInStatus, result, error, calls, form,
                 elapsed, sinceSubmit, settleLog, endedAt>>

\* the codes a test run may close with: none (it was killed), passed, failed
ChildCodes == {NoCode, 0, 1}

\* a close handler that leaves with 0 whatever the test run reported
ChildCloses_IgnoresCode ==
  /\ hook.pc = "spawned"
  /\ \E code \in ChildCodes :
       hook' = [hook EXCEPT !.pc = "exited", !.exitCode = 0,
                            !.closes = Append(@, code)]
  /\ UNCHANGED <<envVars, loader, todoVars, active, appVars, raceVars, pc, step,
                 testStatus, signInStatus, result, error, calls, form, elapsed,
                 sinceSubmit, settleLog, endedAt>>

\* child.on('close', (code) => process.exit(code ?? 0))
ChildCloses ==
  /\ hook.pc = "spawned"
  /\ \E code \in ChildCodes :
       hook' = [hook EXCEPT !.pc = "exited",
                            !.exitCode = IF code = NoCode THEN 0 ELSE code,
                            !.closes = Append(@, code)]
  /\ UNCHANGED <<envVars, loader, todoVars, active, appVars, raceVars, pc,
                 step, testStatus, signInStatus, result, error, calls, form,
                 elapsed, sinceSubmit, settleLog, endedAt>>

HookNext == HookMain \/ ChildCloses

HookSpec == HookInit /\ [][HookNext]_vars

\* main() runs once the process is started; whether the test run it spawned
\* ever closes is up to that run
FairHookSpec == HookSpec /\ WF_vars(HookMain)

----------------------------------------------------------------------------
(***************************************************************************)
(* loadEnv (utils/loadEnv.ts): run once when it is imported at start-up,   *)
(* before any fixture module is loaded.                                    *)
(***************************************************************************)

\* what one config/.env.<name> file may define
EnvFileContents ==
  { [TEST_USER_EMAIL |-> Undefined, TEST_USER_PASSWORD |-> Undefined],
    [TEST_USER_EMAIL |-> "user@example.com", TEST_USER_PASSWORD |-> Undefined],
    [TEST_USER_EMAIL |-> "user@example.com", TEST_USER_PASSWORD |-> "password123"] }

EnvInit ==
  /\ env \in [TEST_USER_EMAIL : EmailValues, TEST_USER_PASSWORD : PasswordValues]
  /\ TEST_USER_EMAIL = Undefined
  /\ TEST_USER_PASSWORD = Undefined
  /\ entry = "hook"
  /\ impl = "race"
  /\ SuiteIdle
  /\ hook = HookOff
  /\ app = AppOff
  /\ run = RunOff
  /\ loader \in { [LoaderOff EXCEPT !.pc = "start", !.APP_ENV = a, !.CI = c,
                                     !.files = f, !.content = parsed] :
                     a \in {Undefined, ""} \cup EnvNames,
                     c \in {Undefined, "", "true"},
                     f \in [EnvNames -> PathKinds],
                     parsed \in EnvFileContents }

\* const env = process.env.APP_ENV || 'dev'
EnvName(APP_ENV) == IF Falsy(APP_ENV) THEN "dev" ELSE APP_ENV

\* fs.existsSync(envFile): true of anything at the path
existsSync(files, name) == files[name] # "absent"

\* dotenv.config that lets a failed read escape
DotenvConfig_Throws(kind, parsed, processEnv) ==
  [env |-> processEnv, thrown |-> kind # "file"]

\* dotenv.config({ path }): reads and parses the file and sets the variables
\* the process does not have yet; a read that fails is caught and returned
DotenvConfig(kind, parsed, processEnv) ==
  [env |-> IF kind # "file" THEN processEnv
           ELSE [k \in DOMAIN processEnv |->
                   IF processEnv[k] = Undefined THEN parsed[k] ELSE processEnv[k]],
   thrown |-> FALSE]

\* else if (!process.env.CI)
WarnsWithout(CI) == Falsy(CI)

\* the module body of loadEnv
LoadEnv ==
  /\ loader.pc = "start"
  /\ LET name == EnvName(loader.APP_ENV)
         config == DotenvConfig(loader.files[name], loader.content, env)
     IN IF existsSync(loader.files, name)
          THEN /\ env' = config.env
               /\ loader' = [loader EXCEPT !.pc = "done",
                                           !.configured = Append(@, name),
                                           !.raised = config.thrown]
          ELSE /\ env' = env
               /\ loader' = [loader EXCEPT
                    !.pc = "done",
                    !.warnings = IF WarnsWithout(loader.CI) THEN Append(@, name)
                                 ELSE @]
  /\ UNCHANGED <<TEST_USER_EMAIL, TEST_USER_PASSWORD, entry, impl, todoVars,
                 hook, active, appVars, raceVars, pc, step, testStatus,
                 signInStatus, result, error, calls, form, elapsed,
                 sinceSubmit, settleLog, endedAt>>

EnvNext == LoadEnv

EnvSpec == EnvInit /\ [][EnvNext]_vars

----------------------------------------------------------------------------
(***************************************************************************)
(* The test bodies of the critical flows and the TodoPage page object they *)
(* drive, after the beforeEach hook has signed in. The application keeps   *)
(* its list and re-renders the page in a step of its own: what the page    *)
(* shows (`app.dom`) follows the list (`app.todos`, `app.completed`,       *)
(* `app.filter`) by one AppRenders step. Every `await` of a test or of a   *)
(* page-object method is one step.                                         *)
(***************************************************************************)

\* every variable of the sign-in and of the hook process
suiteVars == <<envVars, loader, hook, active, appVars, raceVars, pc, step, testStatus,
               signInStatus, result, error, calls, form, elapsed, sinceSubmit,
               settleLog, endedAt>>

\* Date.now() in this run, and in an earlier run whose todo may still be listed
Now == <<"1", "7">>
Earlier == <<"1", "6">>

E2E_TEST_TODO == <<"E", "2", "E", " ", "t", "e", "s", "t", " ", "t", "o", "d", "o">>
COMPLETE_ME == <<"C", "o", "m", "p", "l", "e", "t", "e", " ", "m", "e">>
DELETE_ME == <<"D", "e", "l", "e", "t", "e", " ", "m", "e">>
TODO_1 == <<"T", "o", "d", "o", " ", "1">>
TODO_2 == <<"T", "o", "d", "o", " ", "2">>

\* `${label} ${Date.now()}`
Template(label, stamp) == label \o <<" ">> \o stamp

todo1 == Template(TODO_1, Now)
todo2 == Template(TODO_2, Now)

\* what an earlier run of the suite may have left in the account's list
Leftovers == {Template(TODO_1, Earlier)}

NoText == <<>>

TodoTests == {"add", "complete", "delete", "filter", "clear"}

\* one awaited call of a test body, and the expect(...) lines that follow it:
\* `then` holds one matcher for each of the last Len(then) results
Call(call, todoText, filterType, then) ==
  [call |-> call, todoText |-> todoText, filterType |-> filterType, then |-> then]

\* await expect(todoPage.todoInput).toBeVisible(...); ...toBeEnabled(...)
InputReady ==
  << Call("toBeVisible", NoText, "none", <<>>),
     Call("toBeEnabled", NoText, "none", <<>>) >>

\* the bodies of the tests of the critical flows
Script(test) ==
  CASE test = "add" ->
         LET newTodoText == Template(E2E_TEST_TODO, Now)
         IN InputReady \o
            << Call("addTodo", newTodoText, "none", <<>>),
               Call("isTodoVisible", newTodoText, "none", <<"toBe(true)">>),
               Call("getTodoCount", NoText, "none", <<"toBeGreaterThan(0)">>) >>
    [] test = "complete" ->
         LET newTodoText == Template(COMPLETE_ME, Now)
         IN InputReady \o
            << Call("addTodo", newTodoText, "none", <<>>),
               Call("isTodoVisible", newTodoText, "none", <<"toBe(true)">>),
               Call("completeTodo", newTodoText, "none", <<>>),
               Call("isTodoCompleted", newTodoText, "none", <<"toBe(true)">>),
               Call("getCompletedTodosCount", NoText, "none",
                    <<"toBeGreaterThan(0)">>) >>
    [] test = "delete" ->
         LET newTodoText == Template(DELETE_ME, Now)
         IN InputReady \o
            << Call("addTodo", newTodoText, "none", <<>>),
               Call("isTodoVisible", newTodoText, "none", <<"toBe(true)">>),
               Call("deleteTodo", newTodoText, "none", <<>>),
               Call("isTodoVisible", newTodoText, "none", <<"toBe(false)">>) >>
    [] test = "filter" ->
         << Call("addTodo", todo1, "none", <<>>),
            Call("addTodo", todo2, "none", <<>>),
            Call("completeTodo", todo1, "none", <<>>),
            Call("filterTodos", NoText, "completed", <<>>),
            Call("isTodoVisible", todo1, "none", <<>>),
            Call("isTodoVisible", todo2, "none", <<"toBe(true)", "toBe(false)">>),
            Call("filterTodos", NoText, "active", <<>>),
            Call("isTodoVisible", todo1, "none", <<>>),
            Call("isTodoVisible", todo2, "none", <<"toBe(false)", "toBe(true)">>),
            Call("filterTodos", NoText, "all", <<>>),
            Call("isTodoVisible", todo1, "none", <<>>),
            Call("isTodoVisible", todo2, "none", <<"toBe(true)", "toBe(true)">>) >>
    [] test = "clear" ->
         << Call("addTodo", todo1, "none", <<>>),
            Call("addTodo", todo2, "none", <<>>),
            Call("completeTodo", todo1, "none", <<>>),
            Call("completeTodo", todo2, "none", <<>>),
            Call("isTodoCompleted", todo1, "none", <<>>),
            Call("isTodoCompleted", todo2, "none", <<"toBe(true)", "toBe(true)">>),
            Call("clearCompletedTodos", NoText, "none", <<>>),
            Call("isTodoVisible", todo1, "none", <<>>),
            Call("isTodoVisible", todo2, "none", <<"toBe(false)", "toBe(false)">>) >>

\* the view of the list that the selected filter asks for
InView(a, t) ==
  \/ a.filter = "all"
  \/ a.filter = "completed" /\ t \in a.completed
  \/ a.filter = "active" /\ t \notin a.completed

\* the page as the application renders it from its list
View(a) ==
  [shown |-> {t \in a.todos : InView(a, t)},
   checked |-> {t \in a.todos : InView(a, t) /\ t \in a.completed},
   todoCount |-> Cardinality(a.todos),
   todoCompleted |-> Cardinality(a.completed)]

\* the page shows the list as it is: no rendering is outstanding
Settled == app.dom = View(app)

\* the beforeEach hook has signed in through the page objects, every element
\* showing at once: the test is about to run its body
SignedIn ==
  /\ env = [TEST_USER_EMAIL |-> "user@example.com",
            TEST_USER_PASSWORD |-> "password123"]
  /\ TEST_USER_EMAIL = env.TEST_USER_EMAIL
  /\ TEST_USER_PASSWORD = env.TEST_USER_PASSWORD
  /\ entry = "hook"
  /\ impl = "pom"
  /\ pc = "done"
  /\ step = Len(PomSteps)
  /\ testStatus = "body"
  /\ signInStatus = "returned"
  /\ active = 0
  /\ result = "none"
  /\ error = NoError
  /\ calls = [i \in 1..Len(PomSteps) |-> PomSteps[i].op]
  /\ form = [email |-> TEST_USER_EMAIL, password |-> TEST_USER_PASSWORD]
  /\ loaded = TRUE
  /\ submitted = TRUE
  /\ visible = [e \in Elements |-> e # "invalid"]
  /\ placeholder \in Placeholders
  /\ waits = [m \in Markers |-> "none"]
  /\ race = Pending
  /\ jobs = <<>>
  /\ elapsed = 0
  /\ sinceSubmit = 0
  /\ shownAt = [m \in Markers |-> IF m = "todo" THEN 0 ELSE Never]
  /\ settleLog = << <<"loginForm", "fulfilled">>, <<"emailInput", "fulfilled">>,
                    <<"passwordInput", "fulfilled">>,
                    <<"signInButton", "fulfilled">>, <<"todoList", "fulfilled">>,
                    <<"todo", "fulfilled">>, <<"todoSubmit", "fulfilled">> >>
  /\ endedAt = 0

\* the signed-in page of a test that is about to run its body
TodoInit ==
  /\ SignedIn
  /\ hook = HookOff
  /\ loader = LoaderOff
  /\ \E left \in SUBSET Leftovers : \E done \in SUBSET left :
       LET a == [AppOff EXCEPT !.todos = left, !.completed = done]
       IN app = [a EXCEPT !.dom = View(a)]
  /\ run \in { [RunOff EXCEPT !.test = t, !.at = 1, !.sub = 1,
                              !.status = "running"] : t \in TodoTests }

\* the call of the test body that is in progress
Current == Script(run.test)[run.at]

\* the test is at await number `sub` of a call of `call`
At(call, sub) == run.status = "running" /\ Current.call = call /\ run.sub = sub

Entry(outcome, value, count) ==
  [call |-> Current.call, todoText |-> Current.todoText,
   filterType |-> Current.filterType, outcome |-> outcome, value |-> value,
   count |-> count]

\* expect(value).toBe(true), .toBe(false), expect(count).toBeGreaterThan(0)
Met(matcher, got) ==
  CASE matcher = "toBe(true)" -> got.value
    [] matcher = "toBe(false)" -> ~got.value
    [] matcher = "toBeGreaterThan(0)" -> got.count > 0

\* the expect lines that follow the call hold of the results they name
Expectations(log, then) ==
  \A k \in 1..Len(then) : Met(then[k], log[Len(log) - Len(then) + k])

\* the call returns: its expect lines run, the body goes on or ends
Returns(value, count, clicked) ==
  LET log == Append(run.log, Entry("returned", value, count))
  IN run' = [run EXCEPT
       !.log = log,
       !.clicks = @ \o clicked,
       !.at = @ + 1,
       !.sub = 1,
       !.status = IF ~Expectations(log, Current.then) THEN "failed"
                  ELSE IF run.at = Len(Script(run.test)) THEN "passed"
                  ELSE "running"]

\* the call throws: the test fails
Throws(clicked) ==
  run' = [run EXCEPT !.log = Append(@, Entry("thrown", FALSE, 0)),
                     !.clicks = @ \o clicked,
                     !.status = "failed"]

\* the call goes on to its next await
Await(clicked) == run' = [run EXCEPT !.sub = @ + 1, !.clicks = @ \o clicked]

\* the text, lower-cased
LowerCased(str) == [i \in 1..Len(str) |-> Lower(str[i])]

\* filter({ hasText }): a case-insensitive substring match
HasText(item, text) == Contains(item, LowerCased(text))

\* todoListContainer.locator(TODO_ITEM_CONTAINER).filter({ hasText: todoText })
getTodoByText(todoText) == {t \in app.dom.shown : HasText(t, todoText)}

\* an action on a locator waits until the locator resolves; it gives up when
\* nothing is left to render, and refuses a locator that resolves to several
Resolves(todoItem) == todoItem # {} \/ Settled
Single(todoItem) == Cardinality(todoItem) = 1
The(todoItem) == CHOOSE t \in todoItem : TRUE

\* await expect(todoPage.todoInput).toBeVisible / toBeEnabled({ timeout: 5000 })
ExpectTodoInput ==
  /\ At("toBeVisible", 1) \/ At("toBeEnabled", 1)
  /\ Returns(TRUE, 0, <<>>)
  /\ UNCHANGED <<suiteVars, app>>

\* addTodo: await this.todoInput.fill(todoText)
AddTodoFill ==
  /\ At("addTodo", 1)
  /\ app' = [app EXCEPT !.input = Current.todoText]
  /\ Await(<<>>)
  /\ UNCHANGED suiteVars

\* addTodo: await this.todoSubmitButton.click(); the application takes the
\* text of the input into its list
AddTodoClick ==
  /\ At("addTodo", 2)
  /\ app' = [app EXCEPT !.todos = @ \cup {app.input}]
  /\ Returns(TRUE, 0, <<"todo-submit">>)
  /\ UNCHANGED suiteVars

\* isTodoVisible: todoItem.isVisible() reads the page as it is, without waiting
IsTodoVisible ==
  /\ At("isTodoVisible", 1)
  /\ LET todoItem == getTodoByText(Current.todoText)
     IN IF Cardinality(todoItem) > 1 THEN Throws(<<>>)
        ELSE Returns(todoItem # {}, 0, <<>>)
  /\ UNCHANGED <<suiteVars, app>>

\* completeTodo: checkbox.check() returns at once on a checked box, else
\* clicks it; the box itself may or may not toggle before the page re-renders
CompleteTodoClick ==
  /\ At("completeTodo", 1)
  /\ LET todoItem == getTodoByText(Current.todoText)
     IN /\ Resolves(todoItem)
        /\ IF ~Single(todoItem) THEN Throws(<<>>) /\ UNCHANGED app
           ELSE IF The(todoItem) \in app.dom.checked
             THEN Returns(TRUE, 0, <<>>) /\ UNCHANGED app
           ELSE \E native \in BOOLEAN :
                  /\ app' = [app EXCEPT
                       !.completed =
                         IF The(todoItem) \notin app.todos THEN @
                         ELSE IF The(todoItem) \in @ THEN @ \ {The(todoItem)}
                         ELSE @ \cup {The(todoItem)},
                       !.dom.checked =
                         IF native THEN @ \cup {The(todoItem)} ELSE @]
                  /\ Await(<<"todo-item-checkbox">>)
  /\ UNCHANGED suiteVars

\* check() taken for a plain click: nothing is read after the click
CompleteTodoVerify_ClickOnly ==
  /\ At("completeTodo", 2)
  /\ Returns(TRUE, 0, <<>>)
  /\ UNCHANGED <<suiteVars, app>>

\* completeTodo: after its click, check() reads the box once more and throws
\* unless it is checked now
CompleteTodoVerify ==
  /\ At("completeTodo", 2)
  /\ LET todoItem == getTodoByText(Current.todoText)
     IN IF Single(todoItem) /\ The(todoItem) \in app.dom.checked
          THEN Returns(TRUE, 0, <<>>)
          ELSE Throws(<<>>)
  /\ UNCHANGED <<suiteVars, app>>

\* isTodoCompleted: checkbox.isChecked() waits for the box, then reads it
IsTodoCompleted ==
  /\ At("isTodoCompleted", 1)
  /\ LET todoItem == getTodoByText(Current.todoText)
     IN /\ Resolves(todoItem)
        /\ IF ~Single(todoItem) THEN Throws(<<>>)
           ELSE Returns(The(todoItem) \in app.dom.checked, 0, <<>>)
  /\ UNCHANGED <<suiteVars, app>>

\* deleteTodo: deleteButton.click()
DeleteTodo ==
  /\ At("deleteTodo", 1)
  /\ LET todoItem == getTodoByText(Current.todoText)
     IN /\ Resolves(todoItem)
        /\ IF ~Single(todoItem) THEN Throws(<<>>) /\ UNCHANGED app
           ELSE /\ app' = [app EXCEPT !.todos = @ \ {The(todoItem)},
                                      !.completed = @ \ {The(todoItem)}]
                /\ Returns(TRUE, 0, <<"todo-item-delete">>)
  /\ UNCHANGED suiteVars

\* the control that filterTodos clicks for each filterType
FilterControl(filterType) ==
  CASE filterType = "all" -> "filter-all"
    [] filterType = "active" -> "filter-active"
    [] filterType = "completed" -> "filter-completed"

\* the view that each filter control selects
FilterOf(control) ==
  CASE control = "filter-all" -> "all"
    [] control = "filter-active" -> "active"
    [] control = "filter-completed" -> "completed"

\* filterTodos: one click on the control of the filterType
FilterTodos ==
  /\ At("filterTodos", 1)
  /\ app' = [app EXCEPT !.filter = FilterOf(FilterControl(Current.filterType))]
  /\ Returns(TRUE, 0, <<FilterControl(Current.filterType)>>)
  /\ UNCHANGED suiteVars

\* clearCompletedTodos: filterClearCompleted.click()
ClearCompletedTodos ==
  /\ At("clearCompletedTodos", 1)
  /\ app' = [app EXCEPT !.todos = @ \ app.completed, !.completed = {}]
  /\ Returns(TRUE, 0, <<"filter-clear-completed">>)
  /\ UNCHANGED suiteVars

\* getTodoCount, getCompletedTodosCount: parseInt of the counter's text
GetCount ==
  /\ \/ At("getTodoCount", 1) /\ Returns(TRUE, app.dom.todoCount, <<>>)
     \/ At("getCompletedTodosCount", 1) /\ Returns(TRUE, app.dom.todoCompleted, <<>>)
  /\ UNCHANGED <<suiteVars, app>>

\* the application renders its list
AppRenders ==
  /\ ~Settled
  /\ app' = [app EXCEPT !.dom = View(app)]
  /\ UNCHANGED <<suiteVars, run>>

TodoNext ==
  \/ ExpectTodoInput
  \/ AddTodoFill
  \/ AddTodoClick
  \/ IsTodoVisible
  \/ CompleteTodoClick
  \/ CompleteTodoVerify
  \/ IsTodoCompleted
  \/ DeleteTodo
  \/ FilterTodos
  \/ ClearCompletedTodos
  \/ GetCount
  \/ AppRenders

TodoSpec == TodoInit /\ [][TodoNext]_vars

----------------------------------------------------------------------------
(* Vocabulary of the properties.                                           *)

\* the wait for marker m saw it visible during this call
Observed(m) == \E i \in 1..Len(settleLog) : settleLog[i] = <<m, "fulfilled">>

\* signIn got as far as racing the two waits
RaceReached == waits["todo"] # "none"

SignInEnded == signInStatus \in {"returned", "thrown"}

\* the three outcomes, as the caller sees them
Established == signInStatus = "returned"
Rejected == signInStatus = "thrown" /\ error = LOGIN_CREDENTIALS_ERROR
Indeterminate == signInStatus = "thrown" /\ error = LOGIN_TIMEOUT_ERROR

OutcomesNow ==
  {o \in {"Established", "Rejected", "Indeterminate"} :
     \/ o = "Established" /\ Established
     \/ o = "Rejected" /\ Rejected
     \/ o = "Indeterminate" /\ Indeterminate}

----------------------------------------------------------------------------
\* C1: signIn (either implementation) returns normally (Established) only
\* if, during that call, its success wait resolved on the post-login marker
\* (the todo input) being visible.
C1_EstablishedOnlyAfterSuccessObserved ==
  signInStatus = "returned" =>
    /\ Observed("todo")
    /\ visible["todo"]
    /\ impl = "race" => /\ waits["todo"] = "fulfilled"
                        /\ result = "ok"
                        /\ shownAt["todo"] <= endedAt

C1_Witness ==
  /\ signInStatus = "returned"
  /\ Observed("todo")
  /\ visible["invalid"]

----------------------------------------------------------------------------
\* the outcome each value of `result` stands for
C2_OutcomeOf(res) ==
  IF res = "ok" THEN "Established"
  ELSE IF res = "invalid" THEN "Rejected"
  ELSE "Indeterminate"

C2_ExactlyOne ==
  /\ RaceReached /\ SignInEnded =>
       /\ result \in {"ok", "invalid", "timeout"}
       /\ OutcomesNow = {C2_OutcomeOf(result)}
  /\ RaceReached /\ ~SignInEnded => result = "none" /\ OutcomesNow = {}

C2_Stable ==
  OutcomesNow # {} => OutcomesNow' = OutcomesNow /\ result' = result

\* C2: a login attempt that reaches the race resolves to exactly one of
\* Established, Rejected, Indeterminate: it does resolve, the outcome held is
\* the one `result` stands for, and once produced it never changes.
C2_ExactlyOneOutcome ==
  /\ []C2_ExactlyOne
  /\ [][C2_Stable]_vars
  /\ (RaceReached ~> (RaceReached /\ SignInEnded))

C2_Witness ==
  /\ RaceReached
  /\ OutcomesNow = {"Rejected"}
  /\ waits["todo"] = "fulfilled"
  /\ pc = "done"

----------------------------------------------------------------------------
\* C3: of the two waits, the one that observes its marker first decides:
\* the success marker observed first gives Established, the rejection
\* marker observed first gives Rejected, whatever the other wait does later.
C3_FirstObservedDecides ==
  RaceReached /\ SignInEnded /\ settleLog # <<>> =>
    /\ Head(settleLog) = <<"todo", "fulfilled">> => Established
    /\ Head(settleLog) = <<"invalid", "fulfilled">> => Rejected

C3_Witness ==
  /\ SignInEnded
  /\ settleLog = << <<"invalid", "fulfilled">>, <<"todo", "fulfilled">> >>
  /\ shownAt["invalid"] > 0
  /\ Rejected

----------------------------------------------------------------------------
\* the race is on, the rejection marker is shown, the success marker is not
C4_RejectionPrecondition ==
  /\ RaceReached
  /\ visible["invalid"]
  /\ ~visible["todo"]

\* C4 (as amended): when the rejection marker becomes visible before the
\* deadline and the success marker has not been shown, signIn raises the
\* Rejected error at the time the marker became visible, hence strictly
\* before the 15 s deadline.
C4_RejectedWhenMarkerShownInTime ==
  C4_RejectionPrecondition /\ shownAt["invalid"] < WaitTimeout =>
    /\ elapsed = shownAt["invalid"] \/ SignInEnded
    /\ SignInEnded => /\ Rejected
                      /\ endedAt = shownAt["invalid"]
                      /\ endedAt < WaitTimeout

C4_Witness ==
  /\ C4_RejectionPrecondition
  /\ Rejected
  /\ shownAt["invalid"] > 0
  /\ shownAt["invalid"] < WaitTimeout
  /\ endedAt = shownAt["invalid"]

\* C4 as stated: whenever the rejection marker is shown after submit and the
\* success marker is not, signIn ends Rejected strictly before the deadline.
C4_RejectedWheneverMarkerShown ==
  C4_RejectionPrecondition /\ SignInEnded =>
    Rejected /\ endedAt < WaitTimeout

----------------------------------------------------------------------------
----------------------------------------------------------------------------
\* C6: once the race has started signIn never waits past the 15 s deadline:
\* it is never still awaiting the race after the deadline, and it has
\* returned or raised by then.
C6_NoHangPastDeadline ==
  /\ pc = "awaitRace" => elapsed <= WaitTimeout
  /\ RaceReached /\ elapsed > WaitTimeout => SignInEnded
  /\ RaceReached /\ SignInEnded => endedAt <= WaitTimeout

C6_Witness ==
  /\ RaceReached
  /\ SignInEnded
  /\ elapsed > WaitTimeout
  /\ endedAt < WaitTimeout

----------------------------------------------------------------------------
\* the message contains the word
Mentions(msg, w) == \E i \in 1..Len(msg) : msg[i] = w

\* the environment lacks the identifier or the secret (unset or empty)
C7_CredentialMissing ==
  Falsy(env.TEST_USER_EMAIL) \/ Falsy(env.TEST_USER_PASSWORD)

\* C7: when the identifier or the secret is missing, the authenticatedPage
\* fixture raises the configuration error as its first step, naming both
\* variables, before any page interaction: no goto, fill, click or wait.
C7_MissingCredentialsRaiseBeforeAnyPageCall ==
  entry = "fixture" /\ C7_CredentialMissing =>
    /\ calls = <<>>
    /\ ~submitted
    /\ signInStatus = "notCalled"
    /\ pc \in {"begin", "done"}
    /\ pc = "done" => /\ testStatus = "failed"
                      /\ error = MISSING_CREDENTIALS_ERROR
                      /\ Mentions(error, "TEST_USER_EMAIL")
                      /\ Mentions(error, "TEST_USER_PASSWORD")

C7_Witness ==
  /\ entry = "fixture"
  /\ ~Falsy(env.TEST_USER_EMAIL)
  /\ env.TEST_USER_PASSWORD = ""
  /\ pc = "done"
  /\ error = MISSING_CREDENTIALS_ERROR

----------------------------------------------------------------------------
\* C8: when TEST_USER_EMAIL or TEST_USER_PASSWORD is missing, the beforeEach
\* hook marks the test skipped and ends without calling signIn: no login is
\* attempted and the test is never reported failed.
C8_HookSkipsWithoutCredentials ==
  entry = "hook" /\ (Falsy(env.TEST_USER_EMAIL) \/ Falsy(env.TEST_USER_PASSWORD)) =>
    /\ signInStatus = "notCalled"
    /\ calls = <<>>
    /\ error = NoError
    /\ testStatus \in {"setup", "skipped"}
    /\ pc = "done" => testStatus = "skipped"
    /\ pc \in {"begin", "done"}

C8_Witness ==
  /\ entry = "hook"
  /\ env.TEST_USER_EMAIL = Undefined
  /\ ~Falsy(env.TEST_USER_PASSWORD)
  /\ testStatus = "skipped"

----------------------------------------------------------------------------
\* C9: signIn returns normally only when the race gave 'ok'; a race won by
\* the rejection wait, or lost to the timeout, reaches the caller as a
\* raised error and the test body never runs after it.
C9_OnlyEstablishedReturns ==
  /\ impl = "race" /\ signInStatus = "returned" =>
       race = [state |-> "fulfilled", value |-> "ok"]
  /\ RaceReached /\ SignInEnded /\ race # [state |-> "fulfilled", value |-> "ok"] =>
       /\ signInStatus = "thrown"
       /\ error # NoError
       /\ race.state = "fulfilled" => error = LOGIN_CREDENTIALS_ERROR
       /\ race.state = "rejected" => error = LOGIN_TIMEOUT_ERROR
       /\ testStatus \in {"setup", "failed"}
       /\ pc = "done" => testStatus = "failed"

C9_Witness ==
  /\ pc = "done"
  /\ testStatus = "failed"
  /\ race.state = "rejected"
  /\ error = LOGIN_TIMEOUT_ERROR

----------------------------------------------------------------------------
\* the message sends its reader to the credentials
C10_PointsAtCredentials(msg) ==
  \E w \in {"credentials", "credentials\".", "TEST_USER_EMAIL", "TEST_USER_PASSWORD"} :
    Mentions(msg, w)

\* C10: the errors are distinguishable: the Indeterminate error differs from
\* the Rejected one and does not point at the credentials as the cause, and
\* each error names the marker that was, or was not, observed.
C10_ErrorsDistinguishable ==
  /\ Indeterminate => /\ error # LOGIN_CREDENTIALS_ERROR
                      /\ Mentions(error, "todo") /\ Mentions(error, "not")
                      /\ ~C10_PointsAtCredentials(error)
  /\ Rejected => /\ error # LOGIN_TIMEOUT_ERROR
                 /\ Mentions(error, "showed") /\ Mentions(error, "\"Invalid")

----------------------------------------------------------------------------
\* valid credentials against a reachable application: after the submit the
\* application showed the success marker before the 15 s deadline and has
\* not shown the rejection marker
C11_ValidAndReachable ==
  /\ submitted
  /\ shownAt["todo"] # Never
  /\ shownAt["todo"] < WaitTimeout
  /\ ~visible["invalid"]

\* C11: for valid credentials against a reachable application signIn
\* (either implementation) ends Established, the page showing the
\* authenticated view: it never ends by raising.
C11_ValidCredentialsEstablish ==
  C11_ValidAndReachable /\ SignInEnded => Established /\ visible["todo"]

----------------------------------------------------------------------------
\* how many times the sign-in control was clicked
C13_Submits == Cardinality({i \in 1..Len(calls) : calls[i] = "click"})

\* once signIn has ended nothing more is done to the page on its behalf
C13_NothingAfterEnd ==
  SignInEnded => /\ calls' = calls
                 /\ submitted' = submitted
                 /\ signInStatus' = signInStatus
                 /\ pc' \in {"returned", "thrown", "done"}

\* C13: no retries: within one signIn call the sign-in control is clicked at
\* most once, and after a Rejected or Indeterminate outcome (or any other
\* raised error) the call has ended: it never goes back to the submit step.
C13_NoRetries ==
  /\ [](C13_Submits <= 1)
  /\ [](signInStatus = "thrown" => pc \in {"thrown", "done"})
  /\ [][C13_NothingAfterEnd]_vars

C13_Witness ==
  /\ Indeterminate
  /\ C13_Submits = 1
  /\ pc = "done"
  /\ elapsed > WaitTimeout

----------------------------------------------------------------------------
\* /what|todo|add|new/i, the pattern the claim gives for the success marker
C14_StatedPattern ==
  { <<"w", "h", "a", "t">>, <<"t", "o", "d", "o">>, <<"a", "d", "d">>, <<"n", "e", "w">> }

\* C14: the success marker signIn waits for is the element whose placeholder
\* matches /what|todo|add|new/i: the success locator accepts the placeholder
\* of the rendered input exactly when that pattern accepts it.
C14_SuccessMarkerPattern ==
  placeholder # NoPlaceholder =>
    (Test(TODO_INPUT_PLACEHOLDER, placeholder) <=> Test(C14_StatedPattern, placeholder))

----------------------------------------------------------------------------
\* C15: the page-object signIn fails immediately if the application shows
\* "Invalid credentials" after submit: with the rejection marker visible and
\* the todo input not, it raises the invalid-credentials error at the time
\* the marker became visible, without waiting out an expectation's timeout.
C15_PageObjectFailsFastOnRejection ==
  impl = "pom" /\ visible["invalid"] /\ ~visible["todo"] =>
    /\ sinceSubmit = shownAt["invalid"] \/ SignInEnded
    /\ SignInEnded => Rejected

----------------------------------------------------------------------------
\* use(page) was reached: the fixture handed the page to the test body
C16_PageHandedOver == entry = "fixture" /\ testStatus = "body"

\* C16: the authenticatedPage fixture hands the page to the test body only
\* after the login was established: use(page) is never reached when a
\* credential is missing, nor after a Rejected or Indeterminate outcome or
\* any other error raised by the login.
C16_UseOnlyAfterEstablished ==
  /\ C16_PageHandedOver =>
       /\ Established
       /\ Observed("todo")
       /\ error = NoError
       /\ ~Falsy(env.TEST_USER_EMAIL) /\ ~Falsy(env.TEST_USER_PASSWORD)
  /\ entry = "fixture" /\ pc = "done" /\ ~Established => testStatus = "failed"

C16_Witness ==
  /\ C16_PageHandedOver
  /\ impl = "race"
  /\ visible["invalid"]

----------------------------------------------------------------------------
\* where the edited file is: file_path itself when absolute, else file_path
\* taken from the workspace root
C17_Location(filePath, root) ==
  IF filePath.abs THEN normalize(filePath)
  ELSE normalize([abs |-> TRUE, segs |-> root.segs \o filePath.segs])

\* a test file: named *.test.ts or *.spec.ts, or in a directory tests
C17_TestFile(loc) ==
  \/ EndsWith(loc, <<"test", "ts">>)
  \/ EndsWith(loc, <<"spec", "ts">>)
  \/ \E i \in 1..(Len(loc.segs) - 1) : loc.segs[i] = <<"tests">>

\* C17: given a payload naming the edited file, by an absolute path or by
\* one relative to the workspace root, the hook runs
\* `pnpm exec playwright test <file>` on that file, once, when it is a test
\* file (*.test.ts, *.spec.ts, or under tests/), and runs nothing otherwise.
C17_HookRunsTestsOfTestFiles ==
  hook.pc \in {"spawned", "exited"} /\ hook.stdin.kind = "path" =>
    LET root == WorkspaceRoot(hook.stdin)
        loc == C17_Location(hook.stdin.file_path, root)
    IN /\ C17_TestFile(loc) <=> Len(hook.spawned) = 1
       /\ ~C17_TestFile(loc) => hook.spawned = <<>>
       /\ \A i \in 1..Len(hook.spawned) :
            /\ hook.spawned[i].command = "pnpm"
            /\ hook.spawned[i].args = <<"exec", "playwright", "test">>
            /\ C17_Location(hook.spawned[i].file, hook.spawned[i].cwd) = loc

----------------------------------------------------------------------------
\* the place of a page operation among those issued, 0 if it was not issued
C18_Pos(op) ==
  IF \E i \in 1..Len(calls) : calls[i] = op
    THEN CHOOSE i \in 1..Len(calls) : calls[i] = op
    ELSE 0

\* b was issued only after a
C18_Before(a, b) == C18_Pos(b) > 0 => C18_Pos(a) > 0 /\ C18_Pos(a) < C18_Pos(b)

\* the waits for the outcome of the login: the two raced waits, and the
\* expectations of verifyTodoListLoaded
C18_OutcomeWaits ==
  {"waitTodo", "waitInvalid", "expectTodoList", "expectTodoInput", "expectTodoSubmit"}

\* C18: within a login attempt the steps are strictly ordered: the
\* identifier is filled, then the secret, then the submit control is
\* clicked, and the waits for the outcome start only after the click has
\* completed, the form holding both credentials by then.
C18_StepsInOrder ==
  /\ C18_Before("fillEmail", "fillPassword")
  /\ C18_Before("fillPassword", "click")
  /\ \A w \in C18_OutcomeWaits :
       /\ C18_Before("click", w)
       /\ C18_Pos(w) > 0 => submitted
  /\ \A m \in Markers : waits[m] # "none" => submitted
  /\ submitted => form = [email |-> TEST_USER_EMAIL, password |-> TEST_USER_PASSWORD]

C18_Witness ==
  /\ SignInEnded
  /\ calls = <<"goto", "fillEmail", "fillPassword", "click", "waitTodo", "waitInvalid">>

----------------------------------------------------------------------------
\* the race, once settled, keeps its settlement; signIn, once ended, keeps
\* its result, its outcome and its error, and the test body, once running,
\* is not failed by the login
C19_Final ==
  /\ race.state # "pending" => race' = race
  /\ SignInEnded => /\ result' = result
                    /\ signInStatus' = signInStatus
                    /\ error' = error
  /\ testStatus = "body" => testStatus' = "body"

\* C19: once one of the two waits has decided the outcome the other is
\* ignored: when the losing wait resolves or times out later, the race, the
\* outcome signIn reported and the error it raised (if any) stay as they
\* are, and no second error reaches the caller.
C19_LosingWaitIgnored ==
  /\ [][C19_Final]_vars
  /\ [](SignInEnded /\ Len(settleLog) = 2 /\ impl = "race" =>
          race = Chained(settleLog[1][1], settleLog[1][2]))

C19_Witness ==
  /\ testStatus = "body"
  /\ Established
  /\ settleLog = << <<"todo", "fulfilled">>, <<"invalid", "rejected">> >>
  /\ jobs = <<>>
  /\ elapsed > WaitTimeout

----------------------------------------------------------------------------
\* how many signIn calls have begun on the page (each begins with goto)
C20_Begun == Cardinality({i \in 1..Len(calls) : calls[i] = "goto"})

\* C20: only one session initiation runs against the test's page at a time:
\* never two signIn calls in progress together, the one call the hook or the
\* fixture makes is over before the test body runs, and no other is begun.
C20_OneInitiationAtATime ==
  /\ active \in {0, 1}
  /\ active = 1 <=> signInStatus = "running"
  /\ C20_Begun <= 1
  /\ testStatus = "body" => active = 0 /\ C20_Begun = 1

C20_Witness ==
  /\ entry = "hook"
  /\ testStatus = "body"
  /\ active = 0
  /\ C20_Begun = 1

----------------------------------------------------------------------------
\* C21: after addTodo(text) returned, the isTodoVisible(text) that follows it
\* returns true, however the application's rendering falls between the steps
C21_AddedTodoReportedVisible ==
  \A i \in 2..Len(run.log) :
    ( /\ run.log[i].call = "isTodoVisible"
      /\ run.log[i - 1].call = "addTodo"
      /\ run.log[i - 1].outcome = "returned"
      /\ run.log[i - 1].todoText = run.log[i].todoText )
    => run.log[i].outcome = "returned" /\ run.log[i].value

\* C22: after deleteTodo(text) returned for a todo that was visible, the
\* isTodoVisible(text) that follows it returns false
C22_DeletedTodoReportedGone ==
  \A i \in 2..Len(run.log) :
    ( /\ run.log[i].call = "isTodoVisible"
      /\ run.log[i - 1].call = "deleteTodo"
      /\ run.log[i - 1].outcome = "returned"
      /\ run.log[i - 1].todoText = run.log[i].todoText )
    => run.log[i].outcome = "returned" /\ ~run.log[i].value

\* call number k of the test removes todos, changes the view, or clicks the
\* checkbox of the todo with this text
C23_Touches(k, text) ==
  \/ run.log[k].call \in {"deleteTodo", "clearCompletedTodos", "filterTodos"}
  \/ run.log[k].call = "completeTodo" /\ run.log[k].todoText = text

C23_ReportedCompleted ==
  \A i \in 1..Len(run.log) : \A j \in (i + 1)..Len(run.log) :
    ( /\ run.log[i].call = "completeTodo"
      /\ run.log[i].outcome = "returned"
      /\ run.log[j].call = "isTodoCompleted"
      /\ run.log[j].todoText = run.log[i].todoText
      /\ \A k \in (i + 1)..(j - 1) : ~C23_Touches(k, run.log[i].todoText) )
    => run.log[j].outcome = "returned" /\ run.log[j].value

C23_OnlyTheAddressedItem ==
  \A t \in app.todos \cap app'.todos :
    (t \in app'.completed) # (t \in app.completed)
      => At("completeTodo", 1) /\ HasText(t, Current.todoText)

C24_IsFilterControl(control) ==
  control \in {"filter-all", "filter-active", "filter-completed"}

C24_FilterCalls == SelectSeq(run.log, LAMBDA e : e.call = "filterTodos")

\* the filter controls clicked are those of the filterTodos calls, one each
C24_OneClickEach ==
  SelectSeq(run.clicks, C24_IsFilterControl) =
    [i \in 1..Len(C24_FilterCalls) |-> FilterControl(C24_FilterCalls[i].filterType)]

\* completeTodo(text) returned before call number j
C24_Completed(text, j) ==
  \E k \in 1..(j - 1) :
    /\ run.log[k].call = "completeTodo"
    /\ run.log[k].outcome = "returned"
    /\ run.log[k].todoText = text

\* C24: the isTodoVisible calls that follow filterTodos('completed') report
\* the completed todos only, those after filterTodos('active') the others
\* only, those after filterTodos('all') both, and each filterTodos clicks the
\* one control of its argument
C24_FilterSelectsRequestedView ==
  /\ C24_OneClickEach
  /\ \A j \in 1..Len(run.log) : \A i \in (j + 1)..Len(run.log) :
       ( /\ run.log[j].call = "filterTodos"
         /\ run.log[i].call = "isTodoVisible"
         /\ \A k \in (j + 1)..(i - 1) : run.log[k].call = "isTodoVisible" )
       => /\ run.log[i].outcome = "returned"
          /\ run.log[i].value =
               ( \/ run.log[j].filterType = "all"
                 \/ (run.log[j].filterType = "completed")
                      = C24_Completed(run.log[i].todoText, j) )

----------------------------------------------------------------------------
\* the file loadEnv looks for, and whether anything is at its path
C25_Name == IF loader.APP_ENV \in {Undefined, ""} THEN "dev" ELSE loader.APP_ENV
C25_Exists == loader.files[C25_Name] # "absent"

\* config/.env.<APP_ENV> ('dev' without APP_ENV) is handed to dotenv exactly
\* when it exists, and nothing is raised
C25_LoadedIffExists ==
  /\ loader.configured = IF C25_Exists THEN <<C25_Name>> ELSE <<>>
  /\ ~loader.raised
  /\ loader.warnings # <<>> => ~C25_Exists /\ loader.warnings = <<C25_Name>>

\* C25 as stated: environment loading never aborts start-up; the file is
\* loaded exactly when it exists, and when it does not exist a warning is
\* printed only if CI is unset
C25_WarnsOnlyIfCIUnset ==
  loader.pc = "done" =>
    /\ C25_LoadedIffExists
    /\ loader.warnings # <<>> => loader.CI = Undefined

\* C25, amended: the warning is printed exactly when the file does not exist
\* and CI is unset or empty; the file is handed to dotenv exactly when it
\* exists, a file that can be read leaves undefined only what it does not
\* define, and nothing is raised
C25_EnvLoadingNeverAborts ==
  loader.pc = "done" =>
    /\ C25_LoadedIffExists
    /\ loader.warnings # <<>> <=> ~C25_Exists /\ Falsy(loader.CI)
    /\ loader.files[C25_Name] = "file" =>
         \A k \in DOMAIN env : env[k] = Undefined => loader.content[k] = Undefined

\* start-up went on after a missing file with CI set to the empty string,
\* and printed the warning
C25_Witness ==
  /\ loader.pc = "done"
  /\ loader.CI = ""
  /\ ~C25_Exists
  /\ loader.warnings = <<C25_Name>>

----------------------------------------------------------------------------
\* signIn was called: both module constants are there, and they are what the
\* environment holds when the caller looks
C26_CalledWithCredentials ==
  signInStatus # "notCalled" =>
    /\ ~Falsy(TEST_USER_EMAIL)
    /\ ~Falsy(TEST_USER_PASSWORD)
    /\ TEST_USER_EMAIL = env.TEST_USER_EMAIL
    /\ TEST_USER_PASSWORD = env.TEST_USER_PASSWORD

\* what was typed into the login form is what the caller's check saw
C26_SubmitsWhatWasChecked ==
  /\ form.email # Undefined =>
       form.email = TEST_USER_EMAIL /\ form.email = env.TEST_USER_EMAIL
  /\ form.password # Undefined =>
       form.password = TEST_USER_PASSWORD /\ form.password = env.TEST_USER_PASSWORD
  /\ form.email # Undefined \/ form.password # Undefined =>
       signInStatus # "notCalled"

----------------------------------------------------------------------------
\* how the call ended
C27_Class ==
  IF Established THEN "returned"
  ELSE IF Rejected THEN "rejected"
  ELSE IF Indeterminate THEN "timeout"
  ELSE "other"

\* the marker was shown after the submit and within the deadline
C27_ShownInTime(m) == shownAt[m] # Never /\ shownAt[m] < WaitTimeout

\* the three behaviours of the application: the success marker alone shown in
\* time, the rejection marker alone shown in time, neither shown
C27_Behaviour ==
  IF C27_ShownInTime("todo") /\ shownAt["invalid"] = Never THEN "success"
  ELSE IF C27_ShownInTime("invalid") /\ shownAt["todo"] = Never THEN "rejection"
  ELSE IF shownAt["todo"] = Never /\ shownAt["invalid"] = Never THEN "neither"
  ELSE "mixed"

\* the classification of a login by what the application showed
C27_ClassOf(behaviour) ==
  CASE behaviour = "success" -> "returned"
    [] behaviour = "rejection" -> "rejected"
    [] behaviour = "neither" -> "timeout"

\* C27: the race-based and the page-object signIn classify a login alike:
\* once the form is submitted, whichever of them is in use ends as the one
\* classification of the application's behaviour says (returns on success,
\* raises the rejection error on rejection, the timeout error on neither)
C27_ClassifiedAlike ==
  submitted /\ SignInEnded /\ C27_Behaviour # "mixed" =>
    C27_Class = C27_ClassOf(C27_Behaviour)

----------------------------------------------------------------------------
\* an operation of login() was issued, or left its mark on the page
C28_CredentialsTouched ==
  \/ \E i \in 1..Len(calls) : calls[i] \in {"fillEmail", "fillPassword", "click"}
  \/ form # [email |-> Undefined, password |-> Undefined]
  \/ submitted

\* an element of the login page was waited for in vain
C28_LoginElementMissed ==
  \E i \in 1..Len(settleLog) :
    settleLog[i][1] \in LoginElements /\ settleLog[i][2] = "rejected"

\* C28: the page-object signIn types and submits the credentials only after
\* the login form, the email input, the password input and the sign-in
\* button were each observed visible; when one of them does not become
\* visible the call raises, nothing typed and nothing submitted
C28_SubmitOnlyAfterLoginPageVerified ==
  impl = "pom" =>
    /\ C28_CredentialsTouched => \A el \in LoginElements : Observed(el)
    /\ C28_LoginElementMissed =>
         /\ signInStatus = "thrown"
         /\ error = EXPECT_ERROR
         /\ ~C28_CredentialsTouched

\* the sign-in button never showed: the call raised with an empty form
C28_Witness ==
  /\ impl = "pom"
  /\ settleLog = << <<"loginForm", "fulfilled">>, <<"emailInput", "fulfilled">>,
                    <<"passwordInput", "fulfilled">>,
                    <<"signInButton", "rejected">> >>
  /\ signInStatus = "thrown"
  /\ form = [email |-> Undefined, password |-> Undefined]

----------------------------------------------------------------------------
\* the standard input gives main() nothing to run: it is empty, is not JSON,
\* holds no payload object or no file_path, or names a file that isTestFile
\* does not take for a test file
C29_NothingToRun ==
  \/ hook.stdin.kind \in {"blank", "garbage", "null", "noPath"}
  \/ hook.stdin.kind = "path" /\ ~isTestFile(hook.stdin.file_path)

C29_ExitCodes ==
  /\ C29_NothingToRun =>
       /\ hook.pc \in {"start", "exited"}
       /\ hook.spawned = <<>>
       /\ hook.pc = "exited" => hook.exitCode = 0
  /\ hook.spawned # <<>> =>
       /\ ~C29_NothingToRun
       /\ Len(hook.spawned) = 1
       /\ hook.pc \in {"spawned", "exited"}
       /\ hook.pc = "spawned" => hook.closes = <<>> /\ hook.exitCode = NoCode
       /\ hook.pc = "exited" =>
            /\ Len(hook.closes) = 1
            /\ hook.exitCode = IF hook.closes[1] = NoCode THEN 0 ELSE hook.closes[1]
  /\ hook.pc = "start" => hook.spawned = <<>> /\ hook.exitCode = NoCode

\* C29: with nothing to run the hook ends, having spawned no test run, with
\* exit code 0; when it spawns a test run it spawns one, waits for it to
\* close and exits with the code the run closed with, 0 when the run
\* reported none
C29_HookExitCodes ==
  /\ []C29_ExitCodes
  /\ C29_NothingToRun ~> hook.pc = "exited" /\ hook.exitCode = 0

\* the hook ran the tests of an edited test file, the run failed, and the
\* hook left with the run's code
C29_Witness ==
  /\ hook.pc = "exited"
  /\ Len(hook.spawned) = 1
  /\ hook.closes = <<1>>
  /\ hook.exitCode = 1

====
